---- MODULE Spec2Model ----
(***************************************************************************)
(* Model of the deep-research assistant: src/app.py and                    *)
(* src/streamlit_app.py.  Both programs are Streamlit scripts: every user  *)
(* interaction re-enters main() from the top with the widget values and    *)
(* st.session_state kept by the framework.  The variable app says which of *)
(* the two scripts is running.  A program entry is one action up to the    *)
(* first call of the language-model gateway (client.responses.create);     *)
(* every gateway call is one action that takes the reply as its input and  *)
(* runs the code up to the next gateway call.                              *)
(*                                                                         *)
(* Texts that the code inspects (the clarification reply, the answers, the *)
(* review reply) are sequences of one-character strings.  Topic, API key,  *)
(* goal and queries are only tested for emptiness or passed on: they are   *)
(* plain strings.                                                          *)
(***************************************************************************)
EXTENDS Integers, Sequences, FiniteSets

VARIABLES
    app,            \* "app" (src/app.py) or "streamlit_app" (src/streamlit_app.py)
    api_key,        \* the credential main() reads ("" = absent or empty)
    topic,          \* value of the topic text input
    answer_w,       \* widget state of the text inputs keyed answer_<idx>
    shown,          \* what the last entry rendered: "none", "topic", "gen", "form"
    clicked,        \* the button whose click caused the current entry
    has_questions,  \* "questions" in st.session_state
    ss_questions,   \* st.session_state["questions"]
    ss_clarify_id,  \* st.session_state["clarify_id"]
    pc,             \* next gateway call of the running entry, or "idle"
    outcome,        \* how the last entry ended
    answers,        \* main: the list answers
    goal,           \* main: goal
    queries,        \* conduct_research: queries (a parsed JSON value)
    prev_id,        \* conduct_research: prev_id (= main's goal_id)
    collected,      \* conduct_research: collected
    qi,             \* conduct_research: position of the inner for loop
    attempt,        \* conduct_research: iteration of itertools.count(), from 1
    returned,       \* main: collected, the value conduct_research returned
    calls,          \* history: gateway calls of this entry's current attempt
    plan_returned,  \* history: create_plan returned in this entry
    plan_calls,     \* history: planning calls issued in this session
    clarified,      \* history: id, topic and questions of the last clarification
    tally           \* history: review, regeneration and report calls of this entry

vars == <<app, api_key, topic, answer_w, shown, clicked, has_questions,
          ss_questions, ss_clarify_id, pc, outcome, answers, goal, queries,
          prev_id, collected, qi, attempt, returned, calls, plan_returned,
          plan_calls, clarified, tally>>

-----------------------------------------------------------------------------
(* Bounds of the model *)

\* longest list of queries a gateway reply holds
MaxQueries == 2
\* attempts of the research loop the model follows (the code has no cap)
MaxAttempts == 3
\* clicks on "Run Deep Research" that reach planning, per session
MaxRuns == 2
\* longest review reply of the specification SpecEval
MaxTextLen == 4

-----------------------------------------------------------------------------
(* Input domains *)

NL == "\n"

Whitespace == {" ", NL, "\t"}

ApiKeys == {"", "sk"}

Topics == {"", "t", "u"}

\* what the user can type into an answer field: nothing, a blank, a word
AnswerValues == {<<>>, <<" ">>, <<"x">>}

\* replies of the clarification call: no text, only blank lines, one
\* question, two questions with surrounding blanks and an empty line
ClarifyTexts ==
    { <<>>,
      <<" ", NL, " ">>,
      <<"1">>,
      <<" ", "1", " ", NL, NL, "2">> }

\* replies of the review call
EvalTexts ==
    { <<"Y", "e", "s">>,
      <<"Y", "E", "S", ".">>,
      <<"N", "o">>,
      <<"M", "a", "y", "b", "e">> }

\* the characters of the review replies SpecEval draws: the letters of
\* "yes", some of them in both cases, and another letter
EvalChars == {"y", "Y", "e", "s", "S", "n"}

Queries == {"a", "b"}

Goals == {"", "g"}

RECURSIVE SeqsUpTo(_, _)
SeqsUpTo(S, n) ==
    IF n = 0 THEN {<<>>}
    ELSE LET shorter == SeqsUpTo(S, n - 1)
         IN  shorter \cup {Append(s, x) : s \in shorter, x \in S}

QueryLists == SeqsUpTo(Queries, MaxQueries)

IsInjective(s) == \A i, j \in 1..Len(s) : s[i] = s[j] => i = j

\* The values json.loads can return where the code expects a list of
\* queries.  items is what Python's "for q in value" yields: the elements
\* of a list, the keys of an object, the characters of a string; a number
\* cannot be iterated.
JsonValuesOf(lists) ==
    {[kind |-> "list", items |-> s] : s \in lists}
    \cup {[kind |-> "object", items |-> s] : s \in {t \in lists : IsInjective(t)}}
    \cup {[kind |-> "string", items |-> s] : s \in lists}
    \cup {[kind |-> "number", items |-> <<>>]}

JsonValues == JsonValuesOf(QueryLists)

NoValue == [kind |-> "list", items |-> <<>>]

\* replies of the planning call: text that is no JSON, an object lacking a
\* field, an object with both fields
PlanRepliesOf(values) ==
    {[json |-> FALSE, has_goal |-> FALSE, has_queries |-> FALSE, goal |-> "", queries |-> NoValue]}
    \cup {[json |-> TRUE, has_goal |-> FALSE, has_queries |-> TRUE, goal |-> "", queries |-> NoValue]}
    \cup {[json |-> TRUE, has_goal |-> TRUE, has_queries |-> FALSE, goal |-> "g", queries |-> NoValue]}
    \cup {[json |-> TRUE, has_goal |-> TRUE, has_queries |-> TRUE, goal |-> g, queries |-> v] :
              g \in Goals, v \in values}

PlanReplies == PlanRepliesOf(JsonValues)

\* replies of the query-regeneration call
RegenRepliesOf(values) ==
    {[json |-> FALSE, value |-> NoValue]}
    \cup {[json |-> TRUE, value |-> v] : v \in values}

RegenReplies == RegenRepliesOf(JsonValues)

\* The replies the session-level specification Spec draws from: the model
\* follows every user interaction there, and the research loop over lists
\* of at most one query and the two plain review answers.  SpecRun follows
\* one run over the full sets above.
UiValues == {[kind |-> "list", items |-> s] : s \in SeqsUpTo({"a"}, 1)}

UiPlanReplies == PlanRepliesOf(UiValues)

UiRegenReplies == RegenRepliesOf(UiValues)

UiEvalTexts == {<<"Y", "e", "s">>, <<"N", "o">>}

-----------------------------------------------------------------------------
(* Pure helpers of the code *)

\* Python truthiness of a str or None: "not s"
\* (faulty variant: the test is left out)
Falsy_NoCheck(s) == FALSE
Falsy(s) == s = ""

RECURSIVE LStrip(_)
LStrip(s) ==
    IF s # <<>> /\ Head(s) \in Whitespace THEN LStrip(Tail(s)) ELSE s

RECURSIVE RStrip(_)
RStrip(s) ==
    IF s # <<>> /\ s[Len(s)] \in Whitespace
    THEN RStrip(SubSeq(s, 1, Len(s) - 1)) ELSE s

\* str.strip()
Strip(s) == RStrip(LStrip(s))

\* str.split("\n"): the pieces between line breaks, always at least one
RECURSIVE Split(_)
Split(s) ==
    IF \A i \in 1..Len(s) : s[i] # NL THEN <<s>>
    ELSE LET k == CHOOSE i \in 1..Len(s) :
                      s[i] = NL /\ \A j \in 1..(i - 1) : s[j] # NL
         IN  <<SubSeq(s, 1, k - 1)>> \o Split(SubSeq(s, k + 1, Len(s)))

RECURSIVE StrippedNonBlank(_)
StrippedNonBlank(lines) ==
    IF lines = <<>> THEN <<>>
    ELSE IF Strip(Head(lines)) # <<>>
         THEN <<Strip(Head(lines))>> \o StrippedNonBlank(Tail(lines))
         ELSE StrippedNonBlank(Tail(lines))

\* ask_clarifying_questions: [q.strip() for q in text.split("\n") if q.strip()]
Questions(text) == StrippedNonBlank(Split(text))

LowerChar(c) ==
    CASE c = "Y" -> "y"
      [] c = "E" -> "e"
      [] c = "S" -> "s"
      [] c = "N" -> "n"
      [] c = "M" -> "m"
      [] OTHER -> c

\* str.lower()
\* (faulty variant: the text is compared as it is)
Lower_AsIs(s) == s
Lower(s) == [i \in 1..Len(s) |-> LowerChar(s[i])]

\* Python's "sub in s" on strings
Contains(sub, s) ==
    \E k \in 0..(Len(s) - Len(sub)) :
        \A i \in 1..Len(sub) : s[k + i] = sub[i]

\* evaluate_progress: "yes" in text.lower()
Satisfied(text) == Contains(<<"y", "e", "s">>, Lower(text))

\* json.dumps(collected): one JSON object per artifact, in list order
JsonDumps(c) ==
    [i \in 1..Len(c) |-> <<"query", c[i].query, "resp_id", c[i].resp_id>>]

-----------------------------------------------------------------------------
(* The language-model gateway *)

\* previous_response_id omitted
NoId == 0

\* Response ids the state still holds.  Ids are opaque to the program: the
\* model names a new response by the least number that is held nowhere, so
\* a new id differs from every id the program or the history can compare
\* it with.
HeldIds ==
    {ss_clarify_id, clarified.id, prev_id}
    \cup {calls[i].id : i \in 1..Len(calls)}
    \cup {collected[i].resp_id : i \in 1..Len(collected)}
    \cup {returned[i].resp_id : i \in 1..Len(returned)}

NewId == CHOOSE n \in 1..(Cardinality(HeldIds) + 1) :
             n \notin HeldIds /\ \A m \in 1..(n - 1) : m \in HeldIds

\* One client.responses.create(...) as the history records it: what the
\* request holds (the prompt of the clarification holds the topic, that of
\* planning the topic, the questions and the answers, the messages of the
\* review, the regeneration and the report the goal and the serialized
\* artifacts), the id of the response, and the reply, which is the input
\* of the action: the text or the parsed value.
Call(kind, prev, query, content, reply) ==
    [kind |-> kind, prev |-> prev, id |-> NewId, query |-> query,
     content |-> content, reply |-> reply, attempt |-> attempt,
     topic |-> IF kind \in {"clarify", "plan"} THEN topic ELSE "",
     questions |-> IF kind = "plan" THEN ss_questions ELSE <<>>,
     answers |-> IF kind = "plan" THEN answers ELSE <<>>,
     goal |-> IF kind \in {"evaluate", "regen", "report"} THEN goal ELSE ""]

\* The text of a search reply is opaque; it is named after its response.
SearchText(id) == id

-----------------------------------------------------------------------------
(* main(): one program entry, up to its first gateway call *)

\* An uncaught exception leaves main(): the entry is over.
\* (faulty variant: the exception is swallowed, main goes on to the report)
RaisePc_Swallowed == "report"
RaisePc == "idle"

\* the list answers of main: one widget value per stored question
AnswersOf(qs, w) == [i \in 1..Len(qs) |-> w[i]]

\* app.py: any(a.strip() == "" for a in answers)
app_unanswered(ans) == \E i \in 1..Len(ans) : Strip(ans[i]) = <<>>

\* streamlit_app.py: "" in answers
streamlit_unanswered(ans) == \E i \in 1..Len(ans) : ans[i] = <<>>

Unanswered(ans) ==
    IF app = "app" THEN app_unanswered(ans) ELSE streamlit_unanswered(ans)

\* the entry ends here: st.stop(), or the end of main
Stop(s, o, ans) ==
    /\ shown' = s
    /\ pc' = "idle"
    /\ outcome' = o
    /\ answers' = ans

\* the entry goes on to the gateway call p
Goto(s, p, ans) ==
    /\ shown' = s
    /\ pc' = p
    /\ outcome' = "running"
    /\ answers' = ans

\* The answer fields and the "Run Deep Research" button, for the stored
\* questions qs; run says whether the button was clicked.
Form(qs, run) ==
    LET ans == AnswersOf(qs, answer_w')
    IN  IF run
        THEN IF Unanswered(ans)
             THEN Stop("form", "warned", ans)
             ELSE Goto("form", "plan", ans)
        ELSE Stop("form", "rendered", ans)

app_main(gen, run) ==
    IF Falsy(api_key') THEN Stop("none", "no_key", <<>>)
    ELSE IF Falsy(topic') THEN Stop("topic", "no_topic", <<>>)
    ELSE IF gen \/ has_questions
         THEN IF ~has_questions
              THEN Goto("gen", "clarify", <<>>)
              ELSE Form(ss_questions, run)
         ELSE Stop("gen", "rendered", <<>>)

streamlit_main(gen, run) ==
    IF Falsy(api_key') THEN Stop("none", "no_key", <<>>)
    ELSE IF Falsy(topic') THEN Stop("topic", "no_topic", <<>>)
    ELSE IF gen THEN Goto("gen", "clarify", <<>>)
    ELSE IF has_questions THEN Form(ss_questions, run)
    ELSE Stop("gen", "rendered", <<>>)

\* no gateway call counted yet
Tally0 == [evaluate |-> 0, regen |-> 0, report |-> 0]

\* A program entry: the locals of the previous entry are gone.
Main(gen, run) ==
    /\ clicked' = IF gen THEN "gen" ELSE IF run THEN "run" ELSE "none"
    /\ goal' = ""
    /\ queries' = NoValue
    /\ prev_id' = NoId
    /\ collected' = <<>>
    /\ qi' = 1
    /\ attempt' = 0
    /\ returned' = <<>>
    /\ calls' = <<>>
    /\ plan_returned' = FALSE
    /\ tally' = Tally0
    /\ IF app = "app" THEN app_main(gen, run) ELSE streamlit_main(gen, run)
    /\ UNCHANGED <<app, has_questions, ss_questions, ss_clarify_id,
                   plan_calls, clarified>>

(* User interactions; each re-enters main() *)

\* streamlit_app.py takes the key from a sidebar input
EditApiKey(k) ==
    /\ pc = "idle"
    /\ app = "streamlit_app"
    /\ k # api_key
    /\ api_key' = k
    /\ UNCHANGED <<topic, answer_w>>
    /\ Main(FALSE, FALSE)

EditTopic(t) ==
    /\ pc = "idle"
    /\ shown # "none"
    /\ t # topic
    /\ topic' = t
    /\ UNCHANGED <<api_key, answer_w>>
    /\ Main(FALSE, FALSE)

EditAnswer(i, v) ==
    /\ pc = "idle"
    /\ shown = "form"
    /\ i \in 1..Len(ss_questions)
    /\ v # answer_w[i]
    /\ answer_w' = [answer_w EXCEPT ![i] = v]
    /\ UNCHANGED <<api_key, topic>>
    /\ Main(FALSE, FALSE)

ClickGenerate ==
    /\ pc = "idle"
    /\ shown \in {"gen", "form"}
    /\ UNCHANGED <<api_key, topic, answer_w>>
    /\ Main(TRUE, FALSE)

ClickRun ==
    /\ pc = "idle"
    /\ shown = "form"
    /\ plan_calls < MaxRuns
    /\ UNCHANGED <<api_key, topic, answer_w>>
    /\ Main(FALSE, TRUE)

-----------------------------------------------------------------------------
(* The gateway calls: each action is one call, its reply, and the code up  *)
(* to the next call                                                        *)

\* an exception nobody catches
Raise ==
    /\ pc' = RaisePc
    /\ outcome' = "failed"

\* st.session_state["clarify_id"] = cid
\* (faulty variant: a token already stored is kept)
StoreId_Once(old, new) == IF old = NoId THEN new ELSE old
StoreId(old, new) == new

\* ask_clarifying_questions, then main stores the result and renders the form
Clarify(text) ==
    /\ pc = "clarify"
    /\ LET c == Call("clarify", NoId, "", <<>>, text)
           qs == Questions(text)
       IN  /\ calls' = Append(calls, c)
           /\ has_questions' = TRUE
           /\ ss_questions' = qs
           /\ ss_clarify_id' = StoreId(ss_clarify_id, c.id)
           /\ clarified' = [id |-> c.id, topic |-> c.topic, questions |-> qs]
           /\ UNCHANGED answer_w
           /\ Form(qs, clicked = "run")
    /\ UNCHANGED <<app, api_key, topic, clicked, goal, queries, prev_id,
                   collected, qi, attempt, returned,
                   plan_returned, plan_calls, tally>>

\* the token conduct_research passes to run_search
\* (faulty variant: each call continues from the response before it)
SearchPrev_Chained(p, cs) == IF cs = <<>> THEN p ELSE cs[Len(cs)].id
SearchPrev(p, cs) == p

\* "collected = []" after the queries were replaced
\* (faulty variant: the artifacts are kept)
ResetCollected_Keep(c) == c
ResetCollected(c) == <<>>

\* "return collected" at the end of conduct_research
\* (faulty variant: a fresh list is returned)
LoopResult_Empty(c) == <<>>
LoopResult(c) == c

\* itertools.count() yields a next value after n values
\* (faulty variant: range(1) in place of itertools.count())
CountHasNext_Once(n) == n < 1
CountHasNext(n) == TRUE

\* the query of step i of "for q in queries"
\* (faulty variant: the first query every time)
QueryAt_First(v, i) == v.items[1]
QueryAt(v, i) == v.items[i]

\* "for q in queries" ends after step i
\* (faulty variant: a fixed number of queries is assumed)
ForExhausted_Fixed(v, i) == i = 1
ForExhausted(v, i) == i = Len(v.items)

\* generate_final_report passes no previous_response_id
\* (faulty variant: the report continues the research conversation)
ReportPrev_Continue(p) == p
ReportPrev(p) == NoId

\* The head of iteration n of "for _ in itertools.count()": "for q in
\* queries" raises TypeError on a number, and is skipped for no queries.
Iterate(v, n) ==
    /\ attempt' = n
    /\ qi' = 1
    /\ IF v.kind = "number" THEN Raise
       ELSE /\ pc' = IF v.items = <<>> THEN "evaluate" ELSE "search"
            /\ outcome' = "running"

\* create_plan, then main enters conduct_research
Plan(r) ==
    /\ pc = "plan"
    /\ LET c == Call("plan", ss_clarify_id, "", <<>>, r)
       IN  /\ calls' = Append(calls, c)
           /\ plan_calls' = plan_calls + 1
           /\ IF r.json /\ r.has_goal /\ r.has_queries
              THEN /\ goal' = r.goal
                   /\ queries' = r.queries
                   /\ prev_id' = c.id
                   /\ plan_returned' = TRUE
                   /\ collected' = <<>>
                   /\ Iterate(r.queries, 1)
              ELSE /\ Raise
                   /\ UNCHANGED <<goal, queries, prev_id, plan_returned,
                                  collected, qi, attempt>>
    /\ UNCHANGED <<app, api_key, topic, answer_w, shown, clicked,
                   has_questions, ss_questions, ss_clarify_id, answers,
                   returned, clarified, tally>>

\* run_search for queries[qi]; ok says whether the reply has the second
\* output block that search_resp.output[1] reads (IndexError otherwise)
Search(ok) ==
    /\ pc = "search"
    /\ LET q == QueryAt(queries, qi)
           c == Call("search", SearchPrev(prev_id, calls), q, <<>>, ok)
       IN  /\ calls' = Append(calls, c)
           /\ IF ok
              THEN /\ collected' = Append(collected,
                                      [query |-> q, resp_id |-> SearchText(c.id)])
                   /\ qi' = qi + 1
                   /\ pc' = IF ForExhausted(queries, qi)
                            THEN "evaluate" ELSE "search"
                   /\ outcome' = "running"
              ELSE /\ Raise
                   /\ UNCHANGED <<collected, qi>>
    /\ UNCHANGED <<app, api_key, topic, answer_w, shown, clicked,
                   has_questions, ss_questions, ss_clarify_id, answers, goal,
                   queries, prev_id, attempt, returned,
                   plan_returned, plan_calls, clarified, tally>>

\* evaluate_progress; on True the loop breaks and main goes on to the report
Evaluate(text) ==
    /\ pc = "evaluate"
    /\ calls' = Append(calls, Call("evaluate", NoId, "", JsonDumps(collected), text))
    /\ tally' = [tally EXCEPT !.evaluate = @ + 1]
    /\ IF Satisfied(text)
       THEN /\ returned' = LoopResult(collected)
            /\ pc' = "report"
       ELSE /\ returned' = returned
            /\ pc' = "regen"
    /\ UNCHANGED <<app, api_key, topic, answer_w, shown, clicked,
                   has_questions, ss_questions, ss_clarify_id, outcome,
                   answers, goal, queries, prev_id, collected, qi, attempt,
                   plan_returned, plan_calls, clarified>>

\* The request for other queries, and the head of the next iteration.
\* The history calls is cut here: from a retry on it holds the regeneration
\* call that produced the attempt's queries and the calls of the attempt.
Regenerate(r) ==
    /\ pc = "regen"
    /\ attempt < MaxAttempts
    /\ tally' = [tally EXCEPT !.regen = @ + 1]
    /\ LET c == Call("regen", prev_id, "", JsonDumps(collected), r)
       IN  IF r.json
           THEN /\ calls' = <<c>>
                /\ queries' = r.value
                /\ collected' = ResetCollected(collected)
                /\ IF CountHasNext(attempt)
                   THEN /\ Iterate(r.value, attempt + 1)
                        /\ returned' = returned
                   ELSE /\ returned' = LoopResult(collected')
                        /\ pc' = "report"
                        /\ UNCHANGED <<qi, attempt, outcome>>
           ELSE /\ calls' = Append(calls, c)
                /\ Raise
                /\ UNCHANGED <<queries, collected, qi, attempt, returned>>
    /\ UNCHANGED <<app, api_key, topic, answer_w, shown, clicked,
                   has_questions, ss_questions, ss_clarify_id, answers, goal,
                   prev_id, plan_returned, plan_calls, clarified>>

\* generate_final_report, then main renders the report and ends
Report ==
    /\ pc = "report"
    /\ calls' = Append(calls, Call("report", ReportPrev(prev_id), "",
                                    JsonDumps(returned), <<>>))
    /\ tally' = [tally EXCEPT !.report = @ + 1]
    /\ pc' = "idle"
    /\ outcome' = "reported"
    /\ UNCHANGED <<app, api_key, topic, answer_w, shown, clicked,
                   has_questions, ss_questions, ss_clarify_id, answers, goal,
                   queries, prev_id, collected, qi, attempt, returned,
                   plan_returned, plan_calls, clarified>>

-----------------------------------------------------------------------------
(* Specifications *)

\* the most questions a clarification reply of the model yields
NumFields ==
    CHOOSE n \in 0..20 :
        /\ \A t \in ClarifyTexts : Len(Questions(t)) <= n
        /\ \E t \in ClarifyTexts : Len(Questions(t)) = n

Locals0 ==
    /\ goal = ""
    /\ queries = NoValue
    /\ prev_id = NoId
    /\ collected = <<>>
    /\ qi = 1
    /\ attempt = 0
    /\ returned = <<>>
    /\ calls = <<>>
    /\ plan_returned = FALSE
    /\ plan_calls = 0
    /\ tally = Tally0

\* The page after its first load: nothing typed, nothing stored.  app.py
\* reads the key from the secrets or the environment, streamlit_app.py
\* from a sidebar field that starts empty.
Init ==
    /\ app \in {"app", "streamlit_app"}
    /\ api_key \in IF app = "app" THEN ApiKeys ELSE {""}
    /\ topic = ""
    /\ answer_w = [i \in 1..NumFields |-> <<>>]
    /\ shown = IF api_key = "" THEN "none" ELSE "topic"
    /\ clicked = "none"
    /\ has_questions = FALSE
    /\ ss_questions = <<>>
    /\ ss_clarify_id = NoId
    /\ pc = "idle"
    /\ outcome = IF api_key = "" THEN "no_key" ELSE "no_topic"
    /\ answers = <<>>
    /\ clarified = [id |-> NoId, topic |-> "", questions |-> <<>>]
    /\ Locals0

Next ==
    \/ \E k \in ApiKeys : EditApiKey(k)
    \/ \E t \in Topics : EditTopic(t)
    \/ \E i \in 1..NumFields, v \in AnswerValues : EditAnswer(i, v)
    \/ ClickGenerate
    \/ ClickRun
    \/ \E text \in ClarifyTexts : Clarify(text)
    \/ \E r \in UiPlanReplies : Plan(r)
    \/ \E ok \in BOOLEAN : Search(ok)
    \/ \E text \in UiEvalTexts : Evaluate(text)
    \/ \E r \in UiRegenReplies : Regenerate(r)
    \/ Report

\* The session: every user interaction, from the first page load.
Spec == Init /\ [][Next]_vars

\* main() about to call create_plan: the state Spec reaches when the user
\* has answered the question <<"1">> with <<"x">> and clicked the button.
InitRun ==
    /\ app \in {"app", "streamlit_app"}
    /\ api_key = "sk"
    /\ topic = "t"
    /\ answer_w = [i \in 1..NumFields |-> IF i = 1 THEN <<"x">> ELSE <<>>]
    /\ shown = "form"
    /\ clicked = "run"
    /\ has_questions = TRUE
    /\ ss_questions = <<(<<"1">>)>>
    /\ ss_clarify_id = 1
    /\ pc = "plan"
    /\ outcome = "running"
    /\ answers = <<(<<"x">>)>>
    /\ clarified = [id |-> ss_clarify_id, topic |-> topic,
                    questions |-> ss_questions]
    /\ Locals0

NextRun ==
    \/ \E r \in PlanReplies : Plan(r)
    \/ \E ok \in BOOLEAN : Search(ok)
    \/ \E text \in EvalTexts : Evaluate(text)
    \/ \E r \in RegenReplies : Regenerate(r)
    \/ Report

\* One run of planning, research and report, over every reply.
SpecRun == InitRun /\ [][NextRun]_vars

\* the replies with the shape the prompts ask for: a plan with a goal and
\* a list of queries, and a list of queries
WellFormed(v) == v.kind = "list"

WellPlanReplies ==
    {r \in PlanReplies :
        r.json /\ r.has_goal /\ r.has_queries /\ WellFormed(r.queries)}

WellRegenReplies == {r \in RegenReplies : r.json /\ WellFormed(r.value)}

NextWell ==
    \/ \E r \in WellPlanReplies : Plan(r)
    \/ Search(TRUE)
    \/ \E text \in EvalTexts : Evaluate(text)
    \/ \E r \in WellRegenReplies : Regenerate(r)
    \/ Report

\* One run in which every gateway call returns a reply of the expected
\* shape, and the program keeps running: every call of the gateway blocks
\* until the reply is there and the script goes on to its next statement,
\* so a step that can be taken is taken.
SpecWell == InitRun /\ [][NextWell]_vars /\ WF_vars(NextWell)

\* create_plan called on its own: any question list, any answer list
InitPlan ==
    /\ app \in {"app", "streamlit_app"}
    /\ api_key = "sk"
    /\ topic = "t"
    /\ answer_w = [i \in 1..NumFields |-> <<>>]
    /\ shown = "form"
    /\ clicked = "run"
    /\ has_questions = TRUE
    /\ ss_questions \in {Questions(t) : t \in ClarifyTexts}
    /\ ss_clarify_id = 1
    /\ pc = "plan"
    /\ outcome = "running"
    /\ answers \in SeqsUpTo(AnswerValues, NumFields)
    /\ clarified = [id |-> ss_clarify_id, topic |-> topic,
                    questions |-> ss_questions]
    /\ Locals0

NextPlan == \E r \in PlanReplies : Plan(r)

SpecPlan == InitPlan /\ [][NextPlan]_vars

\* The review of the first attempt, over every text of up to MaxTextLen
\* characters of EvalChars.
NextEval ==
    \/ \E r \in UiPlanReplies : Plan(r)
    \/ \E ok \in BOOLEAN : Search(ok)
    \/ /\ pc = "evaluate"
       /\ \E text \in SeqsUpTo(EvalChars, MaxTextLen) : Evaluate(text)

SpecEval == InitRun /\ [][NextEval]_vars

-----------------------------------------------------------------------------
(* Properties of the research loop, checked under SpecRun *)

Last(s) == s[Len(s)]

CallsOf(kind) == {i \in 1..Len(calls) : calls[i].kind = kind}

\* C1: in every attempt, the first and every retry, each search call is
\* given the same continuation token, the one the planning call returned;
\* no search call continues from the reply of another search call, of a
\* review call or of the query-regeneration call.
C1_SearchContinuesFromPlan ==
    /\ \A i \in CallsOf("search") :
           /\ calls[i].prev = prev_id
           /\ prev_id # NoId
           /\ \A j \in 1..Len(calls) :
                  calls[j].kind \in {"search", "evaluate", "regen"}
                      => calls[i].prev # calls[j].id
    /\ \A i \in CallsOf("plan") : plan_returned => prev_id = calls[i].id

\* C1 witness: the second search call of a retry has been issued
C1_Witness ==
    /\ attempt = 2
    /\ Cardinality(CallsOf("search")) = 2
    /\ calls[1].kind = "regen"
    /\ \A i \in CallsOf("search") : calls[i].prev = prev_id

\* the artifact that the search call c of the history produced
ArtifactOf(c) == <<"query", c.query, "resp_id", SearchText(c.id)>>

\* C2: every artifact in the Collected Set submitted to a review call was
\* produced by a search call of the same attempt, for a query of the query
\* set this attempt runs; after a negative decision that is the replacement
\* set, so nothing of a discarded attempt is carried over.
C2_NoCarryOver ==
    \A i \in CallsOf("evaluate") :
        /\ \A k \in 1..Len(calls[i].content) :
               \E j \in 1..(i - 1) :
                   /\ calls[j].kind = "search"
                   /\ calls[j].attempt = calls[i].attempt
                   /\ calls[j].reply
                   /\ calls[i].content[k] = ArtifactOf(calls[j])
                   /\ \E n \in 1..Len(queries.items) :
                          queries.items[n] = calls[j].query
        /\ calls[i].attempt > 1 =>
               /\ calls[1].kind = "regen"
               /\ calls[1].attempt = calls[i].attempt - 1
               /\ calls[1].reply.value = queries

\* C2 witness: the review call after two negative decisions in a row,
\* with two artifacts
C2_Witness ==
    /\ calls # <<>>
    /\ Last(calls).kind = "evaluate"
    /\ Last(calls).attempt = 3
    /\ Len(Last(calls).content) = 2

ReturnsOnlyOnYes ==
    (pc # "report" /\ pc' = "report") =>
        /\ pc = "evaluate"
        /\ Last(calls').kind = "evaluate"
        /\ Satisfied(Last(calls').reply)
        /\ returned' = collected

\* C4 as amended: the loop returns a Collected Set only in the step of a
\* review call that answered positively; a negative review of attempt N
\* is followed by the regeneration call, for every N; and when that reply
\* parses to a value that can be iterated attempt N+1 starts, with the
\* new queries, while any other reply ends the run with an exception and
\* nothing is returned.
C4_NoIterationCap ==
    [][ /\ ReturnsOnlyOnYes
        /\ (pc = "evaluate" /\ ~Satisfied(Last(calls').reply)) =>
               (pc' = "regen" /\ attempt' = attempt)
        /\ (pc = "regen" /\ pc' # "regen") =>
               LET r == Last(calls').reply
               IN  IF r.json /\ r.value.kind # "number"
                   THEN /\ attempt' = attempt + 1
                        /\ queries' = r.value
                        /\ pc' = IF r.value.items = <<>>
                                 THEN "evaluate" ELSE "search"
                   ELSE /\ pc' = "idle"
                        /\ outcome' = "failed"
                        /\ returned' = <<>>
      ]_vars

\* C4 witness: the loop returns in its third attempt, after two negative
\* decisions
C4_Witness ==
    /\ pc = "report"
    /\ attempt = 3
    /\ Last(calls).kind = "evaluate"

\* C4 as claimed: the loop returns only after a positive review, and after
\* the negative review of attempt N it starts attempt N+1 rather than
\* stopping, whatever the regeneration reply.
C4_AlwaysNextAttempt ==
    [][ /\ ReturnsOnlyOnYes
        /\ (pc = "regen" /\ pc' # "regen") =>
               (attempt' = attempt + 1 /\ pc' \in {"search", "evaluate"})
      ]_vars

\* C7: create_plan returns only a plan with a non-empty goal and at least
\* one query.
C7_PlanIsComplete ==
    plan_returned =>
        \A i \in CallsOf("plan") :
            /\ calls[i].reply.goal # ""
            /\ calls[i].reply.queries.items # <<>>

-----------------------------------------------------------------------------
(* Properties of create_plan called on its own, checked under SpecPlan *)

\* C6: create_plan issues no gateway call when the answer list and the
\* question list differ in length.
C6_PlanRejectsMismatch ==
    Len(answers) # Len(ss_questions) => calls = <<>>

-----------------------------------------------------------------------------
(* Properties of the session, checked under Spec *)

\* C5: the report call is issued only right after a review call that
\* answered positively, and a planning or regeneration reply that is no
\* JSON ends the entry: it is the last gateway call of the run.
C5_NoReportWithoutConvergence ==
    /\ pc = "report" =>
           /\ calls # <<>>
           /\ Last(calls).kind = "evaluate"
           /\ Satisfied(Last(calls).reply)
    /\ \A i \in CallsOf("report") :
           /\ i > 1
           /\ calls[i - 1].kind = "evaluate"
           /\ Satisfied(calls[i - 1].reply)
    /\ \A i \in CallsOf("plan") \cup CallsOf("regen") :
           ~calls[i].reply.json =>
               (i = Len(calls) /\ pc = "idle" /\ outcome = "failed")

\* C5 witness: the regeneration reply of a run was no JSON
C5_Witness ==
    /\ calls # <<>>
    /\ Last(calls).kind = "regen"
    /\ ~Last(calls).reply.json
    /\ pc = "idle"

\* C8: the stored question list is never empty and holds no blank entry.
C8_QuestionsNonEmpty ==
    has_questions =>
        /\ ss_questions # <<>>
        /\ \A i \in 1..Len(ss_questions) : Strip(ss_questions[i]) # <<>>

\* C9: an entry caused by "Run Deep Research" while an answer is empty or
\* blank warns and stops without a gateway call.
C9_BlankAnswerStopsRun ==
    (clicked = "run" /\ \E i \in 1..Len(answers) : Strip(answers[i]) = <<>>)
        => (calls = <<>> /\ pc = "idle" /\ outcome = "warned")

\* C10: an entry that finds the API key or the topic empty issues no
\* gateway call and ends before any stage runs.
C10_NoCallWithoutKeyOrTopic ==
    (api_key = "" \/ topic = "") => (calls = <<>> /\ pc = "idle")

\* C10 witness: questions are stored from an earlier entry, and the entry
\* halted on the empty topic or the empty key
C10_Witness ==
    /\ has_questions
    /\ ss_questions # <<>>
    /\ outcome \in {"no_key", "no_topic"}

-----------------------------------------------------------------------------
(* Properties of the review call, checked under SpecEval *)

\* the text holds "yes" in some mix of upper and lower case
HoldsYes(t) ==
    \E k \in 1..(Len(t) - 2) :
        /\ t[k] \in {"y", "Y"}
        /\ t[k + 1] \in {"e", "E"}
        /\ t[k + 2] \in {"s", "S"}

\* C11: the decision of an attempt is positive exactly when the review
\* reply holds "yes" in any case: then the loop returns the Collected Set;
\* after any other reply the next call is the query regeneration.
C11_YesIsTheOnlySignal ==
    (calls # <<>> /\ Last(calls).kind = "evaluate") =>
        IF HoldsYes(Last(calls).reply)
        THEN pc = "report" /\ returned = collected
        ELSE pc = "regen" /\ returned = <<>>

\* C11 witness: a reply with "yes" in mixed case after another letter
\* was taken as positive
C11_Witness ==
    /\ calls # <<>>
    /\ Last(calls).kind = "evaluate"
    /\ Last(calls).reply = <<"n", "Y", "e", "S">>
    /\ pc = "report"

-----------------------------------------------------------------------------
(* Properties of the session and of the loop, second part *)

\* C12: over the interactions that share one session state the planning
\* call is issued at most once, so one goal and one initial query set are
\* produced per session.
C12_OnePlanPerSession == plan_calls <= 1

\* C13: an attempt over n queries issues n search calls, the i-th for the
\* i-th query of the current set, with no other call between them, and the
\* review call after them is given n artifacts, the i-th holding the i-th
\* query and the reply of the i-th search call.
C13_OneSearchPerQuery ==
    /\ \A i \in CallsOf("search") :
           /\ i - 1 \in 1..Len(queries.items)
           /\ calls[i].query = queries.items[i - 1]
           /\ \A j \in 2..(i - 1) : calls[j].kind = "search" /\ calls[j].reply
    /\ \A e \in CallsOf("evaluate") :
           LET n == Len(queries.items)
           IN  /\ e = n + 2
               /\ Len(calls[e].content) = n
               /\ \A i \in 1..n :
                      /\ calls[i + 1].kind = "search"
                      /\ calls[i + 1].query = queries.items[i]
                      /\ calls[e].content[i] = ArtifactOf(calls[i + 1])

\* C13 witness: the review call of a retry over the regenerated list of
\* two different queries, after exactly two search calls
C13_Witness ==
    /\ Len(calls) = 4
    /\ calls[1].kind = "regen"
    /\ queries = [kind |-> "list", items |-> <<"b", "a">>]
    /\ calls[2].query = "b"
    /\ calls[3].query = "a"
    /\ calls[4].kind = "evaluate"
    /\ Len(calls[4].content) = 2

\* C14: the report call is issued without a continuation token, and what
\* it is given is the goal and the serialized Collected Set, nothing else.
C14_ReportStartsAfresh ==
    \A i \in CallsOf("report") :
        /\ calls[i].prev = NoId
        /\ calls[i].goal = goal
        /\ calls[i].content = JsonDumps(returned)
        /\ calls[i].topic = ""
        /\ calls[i].questions = <<>>
        /\ calls[i].answers = <<>>
        /\ calls[i].query = ""

\* C14 witness: the report call of a retry was issued; the research
\* conversation had a token at hand, and two artifacts were collected
C14_Witness ==
    /\ calls # <<>>
    /\ Last(calls).kind = "report"
    /\ Last(calls).attempt = 2
    /\ prev_id # NoId
    /\ Last(calls).goal = "g"
    /\ Len(Last(calls).content) = 2

\* C15: a regeneration reply that is JSON but no list ends the run with an
\* error, and no search call is issued for a query taken from it.
C15_OnlyListsAreSearched ==
    (/\ calls # <<>>
     /\ calls[1].kind = "regen"
     /\ calls[1].reply.json
     /\ calls[1].reply.value.kind # "list") =>
        /\ pc = "idle"
        /\ outcome = "failed"
        /\ CallsOf("search") = {}

\* C16: the stored question list and the stored clarification token are
\* those of one and the same clarification reply, the last one, however
\* often the questions were asked for; and the planning call continues
\* from that token, with those questions.
C16_QuestionsAndTokenFromOneReply ==
    /\ \A i \in CallsOf("clarify") :
           /\ clarified.id = calls[i].id
           /\ clarified.questions = Questions(calls[i].reply)
           /\ has_questions
    /\ has_questions =>
           /\ clarified.id # NoId
           /\ ss_clarify_id = clarified.id
           /\ ss_questions = clarified.questions
    /\ \A i \in CallsOf("plan") :
           /\ has_questions
           /\ calls[i].prev = clarified.id
           /\ calls[i].questions = clarified.questions

\* C16 witness: the questions were generated a second time (the second
\* clarification reply is the one named 2, with two questions), and the
\* planning call was issued
C16_Witness ==
    /\ clarified.id = 2
    /\ Len(clarified.questions) = 2
    /\ CallsOf("plan") # {}
    /\ calls[1].prev = 2

\* C18: the topic given to the planning call is the topic that was given
\* to the clarification call whose questions are stored.
C18_TopicFixedAfterClarification ==
    \A i \in CallsOf("plan") : calls[i].topic = clarified.topic

\* C17: every step of a run issues one gateway call, and they come in
\* order: the planning call first, continuing the clarification that was
\* answered before it; a search call only when the call before it, the
\* planning, the regeneration or a search, has completed; the review call
\* only after every query of the current set was searched and each search
\* has completed; the regeneration call only after the review of the same
\* attempt answered negatively; the report only after a positive review.
C17_CallsInOrder ==
    [][ (pc # "idle" /\ calls' # calls) =>
          /\ Len(calls') <= Len(calls) + 1
          /\ Last(calls').kind = pc
          /\ pc = "plan" =>
                 /\ calls = <<>>
                 /\ has_questions
                 /\ Last(calls').prev = clarified.id
                 /\ clarified.id # NoId
          /\ pc = "search" =>
                 /\ calls # <<>>
                 /\ Last(calls).kind \in {"plan", "regen", "search"}
                 /\ Last(calls).kind = "search" => Last(calls).reply
          /\ pc = "evaluate" =>
                 /\ Len(calls) = Len(queries.items) + 1
                 /\ calls[1].kind \in {"plan", "regen"}
                 /\ \A j \in 2..Len(calls) :
                        /\ calls[j].kind = "search"
                        /\ calls[j].reply
                        /\ calls[j].attempt = attempt
          /\ pc = "regen" =>
                 /\ calls # <<>>
                 /\ Last(calls).kind = "evaluate"
                 /\ Last(calls).attempt = attempt
                 /\ ~Satisfied(Last(calls).reply)
          /\ pc = "report" =>
                 /\ calls # <<>>
                 /\ Last(calls).kind = "evaluate"
                 /\ Satisfied(Last(calls).reply)
      ]_vars

\* C17 witness: in a retry the regeneration call was issued after its
\* negative review, which came after the two search calls of the attempt
\* (the reply was no JSON, so the history still holds the attempt)
C17_Witness ==
    /\ Len(calls) = 5
    /\ calls[1].kind = "regen"
    /\ calls[2].kind = "search"
    /\ calls[3].kind = "search"
    /\ calls[4].kind = "evaluate"
    /\ calls[5].kind = "regen"
    /\ calls[5].attempt = 2

\* C19: when the review of attempt k is the first positive one the loop
\* has run k attempts, with k reviews and k - 1 regeneration calls; it
\* ends there, the report call follows, and it is issued once: after it
\* the entry is over, with the same counts.
C19_ExactAttempts ==
    /\ [](pc = "report" =>
             /\ attempt >= 1
             /\ Last(calls).kind = "evaluate"
             /\ Last(calls).attempt = attempt
             /\ Satisfied(Last(calls).reply)
             /\ tally = [evaluate |-> attempt, regen |-> attempt - 1,
                         report |-> 0])
    /\ [](tally.report >= 1 =>
             /\ pc = "idle"
             /\ outcome = "reported"
             /\ tally = [evaluate |-> attempt, regen |-> attempt - 1,
                         report |-> 1])
    /\ (pc = "report") ~> (tally.report = 1)

\* C19 witness: the third review was the first positive one, and the
\* report was issued after three reviews and two regeneration calls
C19_Witness ==
    /\ outcome = "reported"
    /\ attempt = 3
    /\ tally = [evaluate |-> 3, regen |-> 2, report |-> 1]

====
